---- MODULE Spec2Model ----
(***************************************************************************)
(* PCI root complex, bus slot allocation and the two configuration access  *)
(* mechanisms (CAM at 0xCF8/0xCFC and ECAM) of pci/src/bus.rs.             *)
(*                                                                         *)
(* A u32 is the set of the positions of its 1 bits, so that shifts, masks   *)
(* and truncation are modelled at their width.                             *)
(***************************************************************************)
EXTENDS Integers, Sequences, FiniteSets, TLC

VARIABLES
    device_ids,      \* PciBus.device_ids : slot number -> BOOLEAN
    devices,         \* PciBus.devices : slot number -> device handle
    config_address,  \* PciConfigIo.config_address (u32)
    regs,            \* configuration registers of every device handle
    panicked,        \* a thread hit an arithmetic-overflow panic
    reserved,        \* history: slots handed out and not released since
    writer,          \* history: the facade that last wrote each register
    last,            \* history: the last call, its arguments and its result
    thread,          \* position and locals of every thread inside a call
    bus_mutex,       \* the threads that hold the Mutex<PciBus>
    device_mutex     \* the threads that hold the Mutex of each device handle

\* the variables of the threads and of the mutexes
thread_vars == <<thread, bus_mutex, device_mutex>>

vars ==
    <<device_ids, devices, config_address, regs, panicked, reserved, writer, last,
      thread, bus_mutex, device_mutex>>

-----------------------------------------------------------------------------
(* Bounds of the model *)

\* longest list of BAR reprogramming requests a device returns for one write
MaxBars == 2

-----------------------------------------------------------------------------
(* u32 arithmetic: a u32 is the set of the positions 0..31 of its 1 bits.  *)
(* Every operator selects its result from BitPos, so that equal words are   *)
(* built the same way.                                                     *)

BitPos == 0..31

ZERO == {}

ALL_ONES == BitPos

\* the u32 of a literal below 2^31
FromNat(n) == {i \in 0..30 : (n \div (2 ^ i)) % 2 = 1}

\* the number whose 1 bits are at the positions in S
RECURSIVE SumPow(_)
SumPow(S) ==
    IF S = {} THEN 0
    ELSE LET i == CHOOSE j \in S : TRUE IN (2 ^ i) + SumPow(S \ {i})

\* `as usize` of a u32 whose bit 31 is clear
AsUsize(v) == SumPow(v \cap (0..30))

\* `as u8`: the low eight bits
AsU8(v) == SumPow(v \cap (0..7))

BitAnd(a, b) == {i \in BitPos : i \in a /\ i \in b}

BitOr(a, b) == {i \in BitPos : i \in a \/ i \in b}

BitNot(a) == {i \in BitPos : i \notin a}

\* a >> n for n < 32
Shr(a, n) == {i \in BitPos : i + n \in a}

\* a << n for n < 32, bits shifted past bit 31 are lost
Shl(a, n) == {i \in BitPos : i - n \in a}

Lowest(S) == CHOOSE m \in S : \A n \in S : m <= n

\* u32::from(byte)
FromU8(b) == FromNat(b)

\* LittleEndian::read_u32
read_u32(data) ==
    BitOr(BitOr(FromU8(data[1]), Shl(FromU8(data[2]), 8)),
          BitOr(Shl(FromU8(data[3]), 16), Shl(FromU8(data[4]), 24)))

\* the literal 0x8000_0000
ENABLE_BIT == {31}

-----------------------------------------------------------------------------
(* Address decoders *)

shift_and_mask(value, offset, mask) == AsUsize(BitAnd(Shr(value, offset), mask))

\* variant: the device number taken at the CAM position, bit 11
parse_mmio_config_address_dev11(a) ==
    << shift_and_mask(a, 20, FromNat(255)),
       shift_and_mask(a, 11, FromNat(31)),
       shift_and_mask(a, 12, FromNat(7)),
       shift_and_mask(a, 2, FromNat(1023)) >>

parse_mmio_config_address(a) ==
    << shift_and_mask(a, 20, FromNat(255)),
       shift_and_mask(a, 15, FromNat(31)),
       shift_and_mask(a, 12, FromNat(7)),
       shift_and_mask(a, 2, FromNat(1023)) >>

\* variant: the register number masked with 0xff
parse_io_config_address_reg8(a) ==
    << shift_and_mask(a, 16, FromNat(255)),
       shift_and_mask(a, 11, FromNat(31)),
       shift_and_mask(a, 8, FromNat(7)),
       shift_and_mask(a, 2, FromNat(255)) >>

parse_io_config_address(a) ==
    << shift_and_mask(a, 16, FromNat(255)),
       shift_and_mask(a, 11, FromNat(31)),
       shift_and_mask(a, 8, FromNat(7)),
       shift_and_mask(a, 2, FromNat(63)) >>

-----------------------------------------------------------------------------
(* PciBus *)

NUM_DEVICE_IDS == 32

Slots == 0..(NUM_DEVICE_IDS - 1)

\* identities of the Arc<Mutex<dyn PciDevice>> handles
Handles == {"root", "d1", "d2"}

\* record of a call: every field is present for every call
NoCall ==
    [op |-> "new", arg |-> 0, hi |-> 0, addr |-> ZERO, data |-> <<>>,
     handle |-> "none", res |-> "Ok", val |-> 0, out |-> <<>>,
     wcr |-> <<>>, moves |-> <<>>]

\* the threads that issue calls
Threads == {"A", "B"}

\* a thread outside every call
IdleThread ==
    [pc |-> "idle", op |-> "none", slot |-> 0, reg |-> 0, offset |-> 0,
     data |-> <<>>, handle |-> "none", bars |-> <<>>, out |-> <<>>,
     res |-> "None", latch |-> ZERO, calls |-> 0]

\* no thread is inside a call and every mutex is free
NoThreads ==
    /\ thread = [t \in Threads |-> IdleThread]
    /\ bus_mutex = {}
    /\ device_mutex = [h \in Handles |-> {}]

\* variant: the flag of slot 0 is not set
PciBus_new_slot0_free ==
    /\ devices = (0 :> "root")
    /\ device_ids = [i \in Slots |-> FALSE]

PciBus_new ==
    /\ devices = (0 :> "root")
    /\ device_ids = [i \in Slots |-> i = 0]

\* the scan of next_device_id: index of the first false flag at or after i
RECURSIVE FirstFree(_, _)
FirstFree(ids, i) ==
    IF i >= NUM_DEVICE_IDS THEN NUM_DEVICE_IDS
    ELSE IF ~ids[i] THEN i
    ELSE FirstFree(ids, i + 1)

\* variant: the scan starts after the host bridge slot
next_device_id_from1 ==
    LET idx == FirstFree(device_ids, 1) IN
    /\ ~panicked
    /\ IF idx < NUM_DEVICE_IDS
       THEN /\ device_ids' = [device_ids EXCEPT ![idx] = TRUE]
            /\ reserved' = {s \in Slots : s \in reserved \/ s = idx}
            /\ last' = [NoCall EXCEPT !.op = "next_device_id", !.val = idx]
       ELSE /\ UNCHANGED <<device_ids, reserved>>
            /\ last' = [NoCall EXCEPT !.op = "next_device_id",
                                      !.res = "NoPciDeviceSlotAvailable"]
    /\ UNCHANGED <<devices, config_address, regs, panicked, writer>>
    /\ UNCHANGED thread_vars

next_device_id ==
    LET idx == FirstFree(device_ids, 0) IN
    /\ ~panicked
    /\ IF idx < NUM_DEVICE_IDS
       THEN /\ device_ids' = [device_ids EXCEPT ![idx] = TRUE]
            /\ reserved' = {s \in Slots : s \in reserved \/ s = idx}
            /\ last' = [NoCall EXCEPT !.op = "next_device_id", !.val = idx]
       ELSE /\ UNCHANGED <<device_ids, reserved>>
            /\ last' = [NoCall EXCEPT !.op = "next_device_id",
                                      !.res = "NoPciDeviceSlotAvailable"]
    /\ UNCHANGED <<devices, config_address, regs, panicked, writer>>
    /\ UNCHANGED thread_vars

\* variant: the slot is not tested for being in use
get_device_id_nocheck(id) ==
    /\ ~panicked
    /\ IF id < NUM_DEVICE_IDS
       THEN /\ device_ids' = [device_ids EXCEPT ![id] = TRUE]
            /\ reserved' = {s \in Slots : s \in reserved \/ s = id}
            /\ last' = [NoCall EXCEPT !.op = "get_device_id", !.arg = id]
       ELSE /\ UNCHANGED <<device_ids, reserved>>
            /\ last' = [NoCall EXCEPT !.op = "get_device_id", !.arg = id,
                                      !.res = "InvalidPciDeviceSlot", !.val = id]
    /\ UNCHANGED <<devices, config_address, regs, panicked, writer>>
    /\ UNCHANGED thread_vars

get_device_id(id) ==
    /\ ~panicked
    /\ IF id < NUM_DEVICE_IDS
       THEN IF ~device_ids[id]
            THEN /\ device_ids' = [device_ids EXCEPT ![id] = TRUE]
                 /\ reserved' = {s \in Slots : s \in reserved \/ s = id}
                 /\ last' = [NoCall EXCEPT !.op = "get_device_id", !.arg = id]
            ELSE /\ UNCHANGED <<device_ids, reserved>>
                 /\ last' = [NoCall EXCEPT !.op = "get_device_id", !.arg = id,
                                           !.res = "AlreadyInUsePciDeviceSlot",
                                           !.val = id]
       ELSE /\ UNCHANGED <<device_ids, reserved>>
            /\ last' = [NoCall EXCEPT !.op = "get_device_id", !.arg = id,
                                      !.res = "InvalidPciDeviceSlot", !.val = id]
    /\ UNCHANGED <<devices, config_address, regs, panicked, writer>>
    /\ UNCHANGED thread_vars

put_device_id(id) ==
    /\ ~panicked
    /\ IF id < NUM_DEVICE_IDS
       THEN /\ device_ids' = [device_ids EXCEPT ![id] = FALSE]
            /\ reserved' = {s \in Slots : s \in reserved /\ s # id}
            /\ last' = [NoCall EXCEPT !.op = "put_device_id", !.arg = id]
       ELSE /\ UNCHANGED <<device_ids, reserved>>
            /\ last' = [NoCall EXCEPT !.op = "put_device_id", !.arg = id,
                                      !.res = "InvalidPciDeviceSlot", !.val = id]
    /\ UNCHANGED <<devices, config_address, regs, panicked, writer>>
    /\ UNCHANGED thread_vars

\* variant: the slot is also flagged occupied
add_device_and_flag(device_id, device) ==
    /\ ~panicked
    /\ devices' = (device_id :> device) @@ devices
    /\ device_ids' = [i \in Slots |-> device_ids[i] \/ i = device_id]
    /\ last' = [NoCall EXCEPT !.op = "add_device", !.arg = device_id,
                              !.handle = device]
    /\ UNCHANGED <<config_address, regs, panicked, reserved, writer>>
    /\ UNCHANGED thread_vars

\* HashMap::insert: the entry under device_id is created or overwritten
add_device(device_id, device) ==
    /\ ~panicked
    /\ devices' = (device_id :> device) @@ devices
    /\ last' = [NoCall EXCEPT !.op = "add_device", !.arg = device_id,
                              !.handle = device]
    /\ UNCHANGED <<device_ids, config_address, regs, panicked, reserved, writer>>
    /\ UNCHANGED thread_vars

\* variant: only the entry with the lowest key is removed
remove_by_device_first(device) ==
    LET hits == {j \in DOMAIN devices : devices[j] = device}
        gone == IF hits = {} THEN {} ELSE {Lowest(hits)}
    IN /\ ~panicked
       /\ devices' = [k \in {j \in DOMAIN devices : j \notin gone} |-> devices[k]]
       /\ last' = [NoCall EXCEPT !.op = "remove_by_device", !.handle = device,
                                 !.val = Cardinality(gone)]
       /\ UNCHANGED <<device_ids, config_address, regs, panicked, reserved, writer>>
       /\ UNCHANGED thread_vars

\* HashMap::retain with Arc::ptr_eq; the record of the call keeps the number
\* of entries that were dropped
remove_by_device(device) ==
    /\ ~panicked
    /\ devices' = [k \in {j \in DOMAIN devices : devices[j] # device} |-> devices[k]]
    /\ last' = [NoCall EXCEPT !.op = "remove_by_device", !.handle = device,
                              !.val = Cardinality({j \in DOMAIN devices :
                                                     devices[j] = device})]
    /\ UNCHANGED <<device_ids, config_address, regs, panicked, reserved, writer>>
    /\ UNCHANGED thread_vars

-----------------------------------------------------------------------------
(* PciDevice contract and DeviceRelocation collaborator *)

VENDOR_ID_INTEL == 32902

DEVICE_ID_INTEL_VIRT_PCIE_HOST == 3415

\* value of a register that was never written: the host bridge identifies
\* itself in register 0, everything else reads 0
ResetValue(h, r) ==
    IF h = "root" /\ r = 0
    THEN BitOr(Shl(FromNat(DEVICE_ID_INTEL_VIRT_PCIE_HOST), 16),
               FromNat(VENDOR_ID_INTEL))
    ELSE ZERO

read_config_register(h, reg_idx) ==
    IF reg_idx \in DOMAIN regs[h] THEN regs[h][reg_idx] ELSE ResetValue(h, reg_idx)

\* the register after the bytes of data are stored at byte offset `offset`
StoreBytes(old, offset, data) ==
    {i \in BitPos :
        LET byte == i \div 8
            bit  == i % 8
        IN IF byte >= offset /\ byte < offset + Len(data)
           THEN (data[byte - offset + 1] \div (2 ^ bit)) % 2 = 1
           ELSE i \in old}

\* the register file after write_config_register(reg_idx, offset, data)
write_config_register(h, reg_idx, offset, data) ==
    [regs EXCEPT ![h] = (reg_idx :> StoreBytes(read_config_register(h, reg_idx),
                                                offset, data)) @@ regs[h]]

\* BAR reprogramming requests a device may return
BarMem32 ==
    [old_base |-> "0x1000_0000", new_base |-> "0x2000_0000", len |-> "0x1000",
     region_type |-> "Memory32BitRegion"]

BarIo ==
    [old_base |-> "0xc000", new_base |-> "0xd000", len |-> "0x40",
     region_type |-> "IoRegion"]

BarParams == {BarMem32, BarIo}

BarLists == UNION {[1..n -> BarParams] : n \in 0..MaxBars}

\* what write_config_register may return: BAR moves and an optional barrier
Responses == [bars : BarLists, barrier : {"None", "Some"}]

Quiet == [bars |-> << >>, barrier |-> "None"]

\* DeviceRelocation::move_bar: this collaborator cannot move I/O BARs
move_bar(old_base, new_base, len, dev, region_type) ==
    IF region_type = "IoRegion" THEN "Err" ELSE "Ok"

\* variant: the loop ends at the first move_bar that fails
relocate_stop_on_error(h, bar_reprogram) ==
    LET results == [i \in 1..Len(bar_reprogram) |->
                      move_bar(bar_reprogram[i].old_base, bar_reprogram[i].new_base,
                               bar_reprogram[i].len, h, bar_reprogram[i].region_type)]
        firstErr == IF \E i \in 1..Len(results) : results[i] = "Err"
                    THEN Lowest({i \in 1..Len(results) : results[i] = "Err"})
                    ELSE Len(results)
    IN [i \in 1..firstErr |->
          [params |-> bar_reprogram[i], dev |-> h, res |-> results[i]]]

\* the `for params in &bar_reprogram` loop: one record per move_bar call
relocate(h, bar_reprogram) ==
    [i \in 1..Len(bar_reprogram) |->
        [params |-> bar_reprogram[i], dev |-> h,
         res |-> move_bar(bar_reprogram[i].old_base, bar_reprogram[i].new_base,
                          bar_reprogram[i].len, h, bar_reprogram[i].region_type)]]

-----------------------------------------------------------------------------
(* PciConfigIo: the CAM facade *)

\* variant: the latch starts with the enable bit set
PciConfigIo_new_enabled == config_address = ENABLE_BIT

PciConfigIo_new == config_address = ZERO

Enabled(a) == BitAnd(a, ENABLE_BIT) # ZERO

\* variant: a slot without a device reads as a register of zeroes
PciConfigIo_config_space_read_zero ==
    IF ~Enabled(config_address) THEN ALL_ONES
    ELSE LET a == parse_io_config_address(BitAnd(config_address, BitNot(ENABLE_BIT)))
         IN IF a[1] # 0 THEN ALL_ONES
            ELSE IF a[3] > 0 THEN ALL_ONES
            ELSE IF a[2] \in DOMAIN devices
                 THEN read_config_register(devices[a[2]], a[4])
                 ELSE ZERO

PciConfigIo_config_space_read ==
    IF ~Enabled(config_address) THEN ALL_ONES
    ELSE LET a == parse_io_config_address(BitAnd(config_address, BitNot(ENABLE_BIT)))
         IN IF a[1] # 0 THEN ALL_ONES
            ELSE IF a[3] > 0 THEN ALL_ONES
            ELSE IF a[2] \in DOMAIN devices
                 THEN read_config_register(devices[a[2]], a[4])
                 ELSE ALL_ONES

\* the bytes start..end-1 of value, or 0xff bytes past the DWORD boundary
ReadBytes(value, offset, len) ==
    LET start == offset % 4
        end   == start + len
    IN IF end <= 4
       THEN [k \in 1..len |-> AsU8(Shr(value, (start + k - 1) * 8))]
       ELSE [k \in 1..len |-> 255]

PciConfigIo_read(offset, len) ==
    LET value == IF offset \in 0..3 THEN config_address
                 ELSE IF offset \in 4..7 THEN PciConfigIo_config_space_read
                 ELSE ALL_ONES
    IN /\ ~panicked
       /\ last' = [NoCall EXCEPT !.op = "io_read", !.arg = offset,
                                 !.out = ReadBytes(value, offset, len)]
       /\ UNCHANGED <<device_ids, devices, config_address, regs, panicked, reserved, writer>>
       /\ UNCHANGED thread_vars

\* the outcomes of set_config_address: the new latch, or a panic where a
\* shift amount reaches the width of u32 in a build that checks overflow;
\* a build that does not check it shifts by the amount modulo 32
set_config_address(offset, data) ==
    LET apply(mask, value) ==
            BitOr(BitAnd(config_address, BitNot(mask)), value)
        done(v) == [panic |-> FALSE, value |-> v]
        shifted(lowmask, lowvalue, n) ==
            IF n < 32
            THEN {done(apply(Shl(lowmask, n), Shl(lowvalue, n)))}
            ELSE {[panic |-> TRUE, value |-> config_address],
                  done(apply(Shl(lowmask, n % 32), Shl(lowvalue, n % 32)))}
    IN IF offset + Len(data) > 4 THEN {done(config_address)}
       ELSE IF Len(data) = 1
            THEN shifted(FromNat(255), FromU8(data[1]), offset * 8)
       ELSE IF Len(data) = 2
            THEN shifted(FromNat(65535),
                         BitOr(Shl(FromU8(data[2]), 8), FromU8(data[1])),
                         offset * 16)
       ELSE IF Len(data) = 4
            THEN {done(apply(ALL_ONES, read_u32(data)))}
       ELSE {done(config_address)}

\* the device write and the BAR moves of config_space_write, under both
\* locks; resp is what the device's write_config_register returns
WriteDevice(call, h, register, offset, data, resp, keep_barrier) ==
    /\ regs' = write_config_register(h, register, offset, data)
    /\ writer' = (<<h, register>> :> call.op) @@ writer
    /\ last' = [call EXCEPT
                  !.wcr = << [dev |-> h, reg |-> register, offset |-> offset,
                              data |-> data, bars |-> resp.bars,
                              barrier |-> resp.barrier] >>,
                  !.moves = relocate(h, resp.bars),
                  !.res = IF keep_barrier THEN resp.barrier ELSE "None"]

Ignored(call) ==
    /\ last' = [call EXCEPT !.res = "None"]
    /\ UNCHANGED <<regs, writer>>

\* variant: the bus number is not tested
PciConfigIo_config_space_write_nobus(call, offset, data, resp) ==
    IF offset + Len(data) > 4 THEN Ignored(call)
    ELSE IF ~Enabled(config_address) THEN Ignored(call)
    ELSE LET a == parse_io_config_address(BitAnd(config_address, BitNot(ENABLE_BIT)))
         IN IF a[2] \in DOMAIN devices
            THEN WriteDevice(call, devices[a[2]], a[4], offset, data, resp, TRUE)
            ELSE Ignored(call)

\* variant: the enable bit is not tested
PciConfigIo_config_space_write_noenable(call, offset, data, resp) ==
    IF offset + Len(data) > 4 THEN Ignored(call)
    ELSE LET a == parse_io_config_address(BitAnd(config_address, BitNot(ENABLE_BIT)))
         IN IF a[1] # 0 THEN Ignored(call)
            ELSE IF a[2] \in DOMAIN devices
                 THEN WriteDevice(call, devices[a[2]], a[4], offset, data, resp, TRUE)
                 ELSE Ignored(call)

\* variant: the length of the access is not tested
PciConfigIo_config_space_write_nolen(call, offset, data, resp) ==
    IF ~Enabled(config_address) THEN Ignored(call)
    ELSE LET a == parse_io_config_address(BitAnd(config_address, BitNot(ENABLE_BIT)))
         IN IF a[1] # 0 THEN Ignored(call)
            ELSE IF a[2] \in DOMAIN devices
                 THEN WriteDevice(call, devices[a[2]], a[4], offset, data, resp, TRUE)
                 ELSE Ignored(call)

PciConfigIo_config_space_write(call, offset, data, resp) ==
    IF offset + Len(data) > 4 THEN Ignored(call)
    ELSE IF ~Enabled(config_address) THEN Ignored(call)
    ELSE LET a == parse_io_config_address(BitAnd(config_address, BitNot(ENABLE_BIT)))
         IN IF a[1] # 0 THEN Ignored(call)
            ELSE IF a[2] \in DOMAIN devices
                 THEN WriteDevice(call, devices[a[2]], a[4], offset, data, resp, TRUE)
                 ELSE Ignored(call)

PciConfigIo_write(offset, data, resp) ==
    LET call == [NoCall EXCEPT !.op = "io_write", !.arg = offset, !.data = data,
                               !.res = "None"]
    IN /\ ~panicked
       /\ IF offset \in 0..3
          THEN \E o \in set_config_address(offset, data) :
                  /\ config_address' = o.value
                  /\ panicked' = o.panic
                  /\ last' = [call EXCEPT !.res = IF o.panic THEN "panic" ELSE "None"]
                  /\ UNCHANGED <<regs, writer>>
          ELSE /\ IF offset \in 4..7
                  THEN PciConfigIo_config_space_write(call, offset - 4, data, resp)
                  ELSE Ignored(call)
               /\ UNCHANGED <<config_address, panicked>>
       /\ UNCHANGED <<device_ids, devices, reserved>>
       /\ UNCHANGED thread_vars

-----------------------------------------------------------------------------
(* PciConfigMmio: the ECAM facade.  The u64 offset of an access is the pair *)
(* (hi, addr): hi = offset >> 32 and addr = offset as u32.                  *)

PciConfigMmio_config_space_read(addr) ==
    LET a == parse_mmio_config_address(addr)
    IN IF a[1] # 0 THEN ALL_ONES
       ELSE IF a[2] \in DOMAIN devices
            THEN read_config_register(devices[a[2]], a[4])
            ELSE ALL_ONES

\* offset % 4
Low2(addr) == AsUsize(BitAnd(addr, FromNat(3)))

PciConfigMmio_read(hi, addr, len) ==
    LET start == Low2(addr)
        end   == start + len
        out   == IF end > 4 \/ hi > 0
                 THEN [k \in 1..len |-> 255]
                 ELSE ReadBytes(PciConfigMmio_config_space_read(addr), start, len)
    IN /\ ~panicked
       /\ last' = [NoCall EXCEPT !.op = "mmio_read", !.hi = hi, !.addr = addr,
                                 !.out = out]
       /\ UNCHANGED <<device_ids, devices, config_address, regs, panicked, reserved, writer>>
       /\ UNCHANGED thread_vars

\* variant: the barrier of the device is handed back to the caller
PciConfigMmio_config_space_write_barrier(call, addr, offset, data, resp) ==
    IF offset + Len(data) > 4 THEN Ignored(call)
    ELSE LET a == parse_mmio_config_address(addr)
         IN IF a[1] # 0 THEN Ignored(call)
            ELSE IF a[2] \in DOMAIN devices
                 THEN WriteDevice(call, devices[a[2]], a[4], offset, data, resp, TRUE)
                 ELSE Ignored(call)

PciConfigMmio_config_space_write(call, addr, offset, data, resp) ==
    IF offset + Len(data) > 4 THEN Ignored(call)
    ELSE LET a == parse_mmio_config_address(addr)
         IN IF a[1] # 0 THEN Ignored(call)
            ELSE IF a[2] \in DOMAIN devices
                 THEN WriteDevice(call, devices[a[2]], a[4], offset, data, resp, FALSE)
                 ELSE Ignored(call)

PciConfigMmio_write(hi, addr, data, resp) ==
    LET call == [NoCall EXCEPT !.op = "mmio_write", !.hi = hi, !.addr = addr,
                               !.data = data, !.res = "None"]
    IN /\ ~panicked
       /\ IF hi > 0
          THEN Ignored(call)
          ELSE PciConfigMmio_config_space_write(call, addr, Low2(addr), data, resp)
       /\ UNCHANGED <<device_ids, devices, config_address, panicked, reserved>>
       /\ UNCHANGED thread_vars

-----------------------------------------------------------------------------
(* The calls as the threads execute them: one step per mutex operation and  *)
(* per device operation.  A facade method takes &mut self, so one thread at *)
(* a time is inside PciConfigIo and one inside PciConfigMmio; PciBus is     *)
(* reached through its mutex only.                                          *)

\* calls one thread may issue
MaxCalls == 2

CamOps == {"io_read", "io_write"}

EcamOps == {"mmio_read", "mmio_write"}

BusOps == {"remove_by_device", "put_device_id"}

InCall(t, ops) == thread[t].pc # "idle" /\ thread[t].op \in ops

\* the exclusive borrow of a facade: no other thread is inside it
Exclusive(t, ops) == \A u \in Threads \ {t} : ~InCall(u, ops)

MayCall(t) ==
    /\ ~panicked
    /\ thread[t].pc = "idle"
    /\ thread[t].calls < MaxCalls

\* the thread after a call: its locals are gone, the latch word it wrote last
\* and the number of its calls are kept
Returned(t) ==
    [IdleThread EXCEPT !.latch = thread[t].latch, !.calls = thread[t].calls + 1]

\* BusDevice::write of PciConfigIo at offset 0: the whole call is one step
PciConfigIo_write_latch(t, data) ==
    /\ MayCall(t)
    /\ Exclusive(t, CamOps)
    /\ \E o \in set_config_address(0, data) :
          /\ config_address' = o.value
          /\ panicked' = o.panic
          /\ thread' = [thread EXCEPT ![t] = [Returned(t) EXCEPT !.latch = o.value]]
    /\ UNCHANGED <<device_ids, devices, regs, reserved, writer, last,
                   bus_mutex, device_mutex>>

\* variant: every thread has a latch of its own, the word it wrote last
PciConfigIo_enter_own_latch(t, op, data) ==
    LET a == parse_io_config_address(BitAnd(thread[t].latch, BitNot(ENABLE_BIT)))
        refused == \/ op = "io_write" /\ Len(data) > 4
                   \/ ~Enabled(thread[t].latch)
                   \/ a[1] # 0
                   \/ op = "io_read" /\ a[3] > 0
    IN /\ MayCall(t)
       /\ Exclusive(t, CamOps)
       /\ thread' = [thread EXCEPT ![t] =
             IF refused
             THEN [Returned(t) EXCEPT !.out = IF op = "io_read"
                                              THEN <<255, 255, 255, 255>>
                                              ELSE <<>>]
             ELSE [thread[t] EXCEPT !.pc = "lock_bus", !.op = op, !.slot = a[2],
                                    !.reg = a[4], !.data = data, !.out = <<>>]]
       /\ UNCHANGED <<device_ids, devices, config_address, regs, panicked, reserved,
                      writer, last, bus_mutex, device_mutex>>

\* the part of a data-window access before the bus is locked: the checks
\* of the enable bit, of the bus number and, for a read, of the function
PciConfigIo_enter(t, op, data) ==
    LET a == parse_io_config_address(BitAnd(config_address, BitNot(ENABLE_BIT)))
        refused == \/ op = "io_write" /\ Len(data) > 4
                   \/ ~Enabled(config_address)
                   \/ a[1] # 0
                   \/ op = "io_read" /\ a[3] > 0
    IN /\ MayCall(t)
       /\ Exclusive(t, CamOps)
       /\ thread' = [thread EXCEPT ![t] =
             IF refused
             THEN [Returned(t) EXCEPT !.out = IF op = "io_read"
                                              THEN <<255, 255, 255, 255>>
                                              ELSE <<>>]
             ELSE [thread[t] EXCEPT !.pc = "lock_bus", !.op = op, !.slot = a[2],
                                    !.reg = a[4], !.data = data, !.out = <<>>]]
       /\ UNCHANGED <<device_ids, devices, config_address, regs, panicked, reserved,
                      writer, last, bus_mutex, device_mutex>>

\* the part of an ECAM access before the bus is locked
PciConfigMmio_enter(t, op, addr, data) ==
    LET a == parse_mmio_config_address(addr)
    IN /\ MayCall(t)
       /\ Exclusive(t, EcamOps)
       /\ thread' = [thread EXCEPT ![t] =
             IF Low2(addr) + (IF op = "mmio_read" THEN 4 ELSE Len(data)) > 4
                \/ a[1] # 0
             THEN [Returned(t) EXCEPT !.out = IF op = "mmio_read"
                                              THEN <<255, 255, 255, 255>>
                                              ELSE <<>>]
             ELSE [thread[t] EXCEPT !.pc = "lock_bus", !.op = op, !.slot = a[2],
                                    !.reg = a[4], !.offset = Low2(addr),
                                    !.data = data, !.out = <<>>]]
       /\ UNCHANGED <<device_ids, devices, config_address, regs, panicked, reserved,
                      writer, last, bus_mutex, device_mutex>>

\* a caller of remove_by_device or put_device_id: it locks the bus first
PciBus_enter(t, op, key, h) ==
    /\ MayCall(t)
    /\ thread' = [thread EXCEPT ![t] =
          [thread[t] EXCEPT !.pc = "lock_bus", !.op = op, !.slot = key,
                            !.handle = h, !.out = <<>>]]
    /\ UNCHANGED <<device_ids, devices, config_address, regs, panicked, reserved,
                   writer, last, bus_mutex, device_mutex>>

Holders(set, t) == {u \in Threads : u \in set \/ u = t}

Released(set, t) == {u \in Threads : u \in set /\ u # t}

IsRead(op) == op \in {"io_read", "mmio_read"}

\* variant: the bus guard is dropped as soon as the device is looked up
lock_pci_bus_lookup_only(t) ==
    /\ thread[t].pc = "lock_bus"
    /\ bus_mutex = {}
    /\ bus_mutex' = IF thread[t].op \in BusOps THEN Holders(bus_mutex, t)
                    ELSE bus_mutex
    /\ thread' = [thread EXCEPT ![t] =
          IF thread[t].op \in BusOps
          THEN [thread[t] EXCEPT !.pc = "bus_call"]
          ELSE IF thread[t].slot \in DOMAIN devices
               THEN [thread[t] EXCEPT !.pc = "lock_device",
                                      !.handle = devices[thread[t].slot]]
               ELSE [thread[t] EXCEPT !.pc = "unlock_bus",
                                      !.out = IF IsRead(thread[t].op)
                                              THEN <<255, 255, 255, 255>>
                                              ELSE <<>>]]
    /\ UNCHANGED <<device_ids, devices, config_address, regs, panicked, reserved,
                   writer, last, device_mutex>>

\* variant: the thread does not wait for the holder of the bus mutex
lock_pci_bus_no_wait(t) ==
    /\ thread[t].pc = "lock_bus"
    /\ bus_mutex' = Holders(bus_mutex, t)
    /\ thread' = [thread EXCEPT ![t] =
          IF thread[t].op \in BusOps
          THEN [thread[t] EXCEPT !.pc = "bus_call"]
          ELSE IF thread[t].slot \in DOMAIN devices
               THEN [thread[t] EXCEPT !.pc = "lock_device",
                                      !.handle = devices[thread[t].slot]]
               ELSE [thread[t] EXCEPT !.pc = "unlock_bus",
                                      !.out = IF IsRead(thread[t].op)
                                              THEN <<255, 255, 255, 255>>
                                              ELSE <<>>]]
    /\ UNCHANGED <<device_ids, devices, config_address, regs, panicked, reserved,
                   writer, last, device_mutex>>

\* `pci_bus.lock().unwrap()`, followed by `devices.get(&device)` for a
\* configuration access: the thread waits until the mutex is free
lock_pci_bus(t) ==
    /\ thread[t].pc = "lock_bus"
    /\ bus_mutex = {}
    /\ bus_mutex' = Holders(bus_mutex, t)
    /\ thread' = [thread EXCEPT ![t] =
          IF thread[t].op \in BusOps
          THEN [thread[t] EXCEPT !.pc = "bus_call"]
          ELSE IF thread[t].slot \in DOMAIN devices
               THEN [thread[t] EXCEPT !.pc = "lock_device",
                                      !.handle = devices[thread[t].slot]]
               ELSE [thread[t] EXCEPT !.pc = "unlock_bus",
                                      !.out = IF IsRead(thread[t].op)
                                              THEN <<255, 255, 255, 255>>
                                              ELSE <<>>]]
    /\ UNCHANGED <<device_ids, devices, config_address, regs, panicked, reserved,
                   writer, last, device_mutex>>

\* `d.lock().unwrap()`
lock_device(t) ==
    LET h == thread[t].handle
    IN /\ thread[t].pc = "lock_device"
       /\ device_mutex[h] = {}
       /\ device_mutex' = [device_mutex EXCEPT ![h] = Holders(@, t)]
       /\ thread' = [thread EXCEPT ![t].pc =
             IF IsRead(thread[t].op) THEN "read_register" ELSE "write_register"]
       /\ UNCHANGED <<device_ids, devices, config_address, regs, panicked, reserved,
                      writer, last, bus_mutex>>

\* read_config_register and the copy of its bytes into the buffer
read_register(t) ==
    /\ thread[t].pc = "read_register"
    /\ thread' = [thread EXCEPT ![t] =
          [thread[t] EXCEPT !.pc = "unlock_device",
                            !.out = ReadBytes(read_config_register(thread[t].handle,
                                                                   thread[t].reg),
                                              thread[t].offset, 4)]]
    /\ UNCHANGED <<device_ids, devices, config_address, regs, panicked, reserved,
                   writer, last, bus_mutex, device_mutex>>

\* the bytes write_config_register stores first: the device updates its
\* register in two parts, and only its mutex makes them one step
FirstPart(data) == SubSeq(data, 1, Len(data) \div 2)

SecondPart(data) == SubSeq(data, (Len(data) \div 2) + 1, Len(data))

write_register(t) ==
    /\ thread[t].pc = "write_register"
    /\ regs' = write_config_register(thread[t].handle, thread[t].reg,
                                     thread[t].offset, FirstPart(thread[t].data))
    /\ thread' = [thread EXCEPT ![t].pc = "write_register_end"]
    /\ UNCHANGED <<device_ids, devices, config_address, panicked, reserved,
                   writer, last, bus_mutex, device_mutex>>

\* the end of write_config_register: the rest of the bytes, and the BAR
\* moves and the barrier it returns; PciConfigMmio drops the barrier
write_register_end(t, resp) ==
    /\ thread[t].pc = "write_register_end"
    /\ regs' = write_config_register(thread[t].handle, thread[t].reg,
                                     thread[t].offset + Len(FirstPart(thread[t].data)),
                                     SecondPart(thread[t].data))
    /\ thread' = [thread EXCEPT ![t] =
          [thread[t] EXCEPT !.pc = IF resp.bars = << >> THEN "unlock_device"
                                   ELSE "move_bar",
                            !.bars = resp.bars,
                            !.res = IF thread[t].op = "io_write" THEN resp.barrier
                                    ELSE "None"]]
    /\ UNCHANGED <<device_ids, devices, config_address, panicked, reserved,
                   writer, last, bus_mutex, device_mutex>>

\* variant: move_bar locks the bus itself before it moves the BAR
move_bar_call_reentrant(t) ==
    /\ thread[t].pc = "move_bar"
    /\ bus_mutex = {}
    /\ thread' = [thread EXCEPT ![t] =
          [thread[t] EXCEPT !.pc = IF Len(thread[t].bars) = 1 THEN "unlock_device"
                                   ELSE "move_bar",
                            !.bars = Tail(thread[t].bars)]]
    /\ UNCHANGED <<device_ids, devices, config_address, regs, panicked, reserved,
                   writer, last, bus_mutex, device_mutex>>

\* one turn of the `for params in &bar_reprogram` loop
move_bar_call(t) ==
    /\ thread[t].pc = "move_bar"
    /\ thread' = [thread EXCEPT ![t] =
          [thread[t] EXCEPT !.pc = IF Len(thread[t].bars) = 1 THEN "unlock_device"
                                   ELSE "move_bar",
                            !.bars = Tail(thread[t].bars)]]
    /\ UNCHANGED <<device_ids, devices, config_address, regs, panicked, reserved,
                   writer, last, bus_mutex, device_mutex>>

\* the device guard goes out of scope
unlock_device(t) ==
    /\ thread[t].pc = "unlock_device"
    /\ device_mutex' = [device_mutex EXCEPT ![thread[t].handle] = Released(@, t)]
    /\ thread' = [thread EXCEPT ![t].pc = "unlock_bus"]
    /\ UNCHANGED <<device_ids, devices, config_address, regs, panicked, reserved,
                   writer, last, bus_mutex>>

\* remove_by_device or put_device_id, called with the bus locked
PciBus_call(t) ==
    /\ thread[t].pc = "bus_call"
    /\ devices' = IF thread[t].op = "remove_by_device"
                  THEN [k \in {j \in DOMAIN devices : devices[j] # thread[t].handle}
                          |-> devices[k]]
                  ELSE devices
    /\ device_ids' = IF thread[t].op = "put_device_id" /\ thread[t].slot < NUM_DEVICE_IDS
                     THEN [device_ids EXCEPT ![thread[t].slot] = FALSE]
                     ELSE device_ids
    /\ reserved' = IF thread[t].op = "put_device_id"
                   THEN {s \in Slots : s \in reserved /\ s # thread[t].slot}
                   ELSE reserved
    /\ thread' = [thread EXCEPT ![t].pc = "unlock_bus"]
    /\ UNCHANGED <<config_address, regs, panicked, writer, last, bus_mutex,
                   device_mutex>>

\* the bus guard goes out of scope and the call returns
unlock_pci_bus(t) ==
    /\ thread[t].pc = "unlock_bus"
    /\ bus_mutex' = Released(bus_mutex, t)
    /\ thread' = [thread EXCEPT ![t] = Returned(t)]
    /\ UNCHANGED <<device_ids, devices, config_address, regs, panicked, reserved,
                   writer, last, device_mutex>>

-----------------------------------------------------------------------------
(* Inputs of the slot-allocation specification *)

SlotArgs == {0, 2, 31, 32}

DevKeys == {0, 1, 2}

BusHandles == {"root", "d1"}

InitBus ==
    /\ PciBus_new
    /\ config_address = ZERO
    /\ regs = [h \in Handles |-> << >>]
    /\ panicked = FALSE
    /\ writer = << >>
    /\ reserved = {}
    /\ last = NoCall
    /\ NoThreads

NextBus ==
    \/ next_device_id
    \/ \E id \in SlotArgs : get_device_id(id)
    \/ \E id \in SlotArgs : put_device_id(id)
    \/ \E k \in DevKeys, h \in BusHandles : add_device(k, h)
    \/ \E h \in BusHandles : remove_by_device(h)

SpecBus == InitBus /\ [][NextBus]_vars

-----------------------------------------------------------------------------
(* Inputs of the address-latch specification *)

\* the little-endian bytes of a u32
ToBytes(v) == [k \in 1..4 |-> AsU8(Shr(v, 8 * (k - 1)))]

LatchBytes == {18, 171}

LatchData == UNION {[1..n -> LatchBytes] : n \in 1..4}

LatchInit == {ZERO, ALL_ONES, FromNat(19088743)}

InitLatch ==
    /\ PciBus_new
    /\ config_address \in LatchInit
    /\ regs = [h \in Handles |-> << >>]
    /\ panicked = FALSE
    /\ writer = << >>
    /\ reserved = {}
    /\ last = NoCall
    /\ NoThreads

NextLatch ==
    \/ \E offset \in 0..3, data \in LatchData : PciConfigIo_write(offset, data, Quiet)
    \/ \E offset \in 0..3, len \in {1, 2, 4} : PciConfigIo_read(offset, len)

SpecLatch == InitLatch /\ [][NextLatch]_vars

-----------------------------------------------------------------------------
(* Inputs of the configuration-access specification *)

\* the CAM address word enable | bus<<16 | device<<11 | function<<8 | reg<<2
Cam(bus, dev, fn, reg) ==
    BitOr(ENABLE_BIT,
          BitOr(BitOr(Shl(FromNat(bus), 16), Shl(FromNat(dev), 11)),
                BitOr(Shl(FromNat(fn), 8), Shl(FromNat(reg), 2))))

\* the ECAM offset bus<<20 | device<<15 | function<<12 | reg<<2 | byte
Ecam(bus, dev, fn, reg, byte) ==
    BitOr(BitOr(BitOr(Shl(FromNat(bus), 20), Shl(FromNat(dev), 15)),
                BitOr(Shl(FromNat(fn), 12), Shl(FromNat(reg), 2))),
          FromNat(byte))

\* <<bus, device, function, register>> addressed by the accesses
Targets ==
    { <<0, 1, 0, 1>>, <<0, 1, 0, 2>>, <<0, 1, 1, 1>>,
      <<1, 1, 0, 1>>, <<0, 2, 0, 1>>, <<0, 0, 0, 1>> }

\* the address of device 1, register 1 with the enable bit clear
CamDisabled == BitAnd(Cam(0, 1, 0, 1), BitNot(ENABLE_BIT))

CfgLatchWrites ==
    { <<0, ToBytes(Cam(t[1], t[2], t[3], t[4]))>> : t \in Targets }
        \cup { <<0, ToBytes(CamDisabled)>> }

\* a latch write and a latch read that cross the DWORD boundary
LatchCrossingWrite == <<3, <<165, 165>>>>

\* <<offset, length>> of the latch reads
CfgLatchReads == { <<0, 4>>, <<1, 2>>, <<2, 1>>, <<3, 1>>, <<2, 4>> }

\* offset >> 32 of the ECAM accesses beyond the 32-bit range
EcamHigh == 1

DWordData == <<120, 86, 52, 18>>

\* <<offset in the DWORD, bytes>> of the data writes
DataWrites == { <<0, DWordData>>, <<1, <<165>>>>, <<3, <<165, 165>>>> }

\* the data writes issued through the CAM data window
CamDataWrites == { <<0, DWordData>>, <<3, <<165, 165>>>> }

\* <<offset in the DWORD, length>> of the data reads
DataReads == { <<0, 4>>, <<1, 1>>, <<2, 4>> }

EcamWrites ==
    { <<Ecam(t[1], t[2], t[3], t[4], 0), DWordData>> : t \in Targets }
        \cup { <<Ecam(0, 1, 0, 1, w[1]), w[2]>> : w \in DataWrites }

EcamReads ==
    { <<Ecam(t[1], t[2], t[3], t[4], 0), 4>> : t \in Targets }
        \cup { <<Ecam(0, 1, 0, 1, r[1]), r[2]>> : r \in DataReads }

CfgResponses == { Quiet, [bars |-> <<BarMem32>>, barrier |-> "Some"] }

InitCfg ==
    /\ devices = (0 :> "root") @@ (1 :> "d1")
    /\ device_ids = [i \in Slots |-> i \in {0, 1, 2}]
    /\ PciConfigIo_new
    /\ regs = [h \in Handles |-> << >>]
    /\ panicked = FALSE
    /\ writer = << >>
    /\ reserved = {1, 2}
    /\ last = NoCall
    /\ NoThreads

NextCfg ==
    \/ \E w \in CfgLatchWrites \cup {LatchCrossingWrite} :
          PciConfigIo_write(w[1], w[2], Quiet)
    \/ \E w \in CamDataWrites, resp \in CfgResponses :
          PciConfigIo_write(4 + w[1], w[2], resp)
    \/ \E r \in CfgLatchReads : PciConfigIo_read(r[1], r[2])
    \/ \E r \in DataReads : PciConfigIo_read(4 + r[1], r[2])
    \/ \E w \in EcamWrites, resp \in CfgResponses :
          PciConfigMmio_write(0, w[1], w[2], resp)
    \/ \E r \in EcamReads : PciConfigMmio_read(0, r[1], r[2])
    \/ \E resp \in CfgResponses :
          PciConfigMmio_write(EcamHigh, Ecam(0, 1, 0, 1, 0), DWordData, resp)
    \/ PciConfigMmio_read(EcamHigh, Ecam(0, 1, 0, 1, 0), 4)

SpecCfg == InitCfg /\ [][NextCfg]_vars

-----------------------------------------------------------------------------
(* Inputs of the BAR-relocation specification *)

BarTargets == { <<0, 1, 0, 1>>, <<0, 1, 0, 2>>, <<0, 2, 0, 1>> }

NextBar ==
    \/ \E t \in BarTargets :
          PciConfigIo_write(0, ToBytes(Cam(t[1], t[2], t[3], t[4])), Quiet)
    \/ \E resp \in Responses : PciConfigIo_write(4, DWordData, resp)
    \/ PciConfigIo_read(4, 4)
    \/ \E t \in BarTargets, resp \in Responses :
          PciConfigMmio_write(0, Ecam(t[1], t[2], t[3], t[4], 0), DWordData, resp)
    \/ \E t \in BarTargets : PciConfigMmio_read(0, Ecam(t[1], t[2], t[3], t[4], 0), 4)

SpecBar == InitCfg /\ [][NextBar]_vars

-----------------------------------------------------------------------------
(* Inputs of the threaded specification: two threads, each issuing latch    *)
(* writes for registers 1 and 2 of the device in slot 1, data-window        *)
(* accesses, ECAM accesses to register 1 of that device, its removal and    *)
(* the release of slot 2                                                    *)

ThrRegisters == {1, 2}

ThrLatchWrites == { ToBytes(Cam(0, 1, 0, r)) : r \in ThrRegisters }

ThrEcam == { Ecam(0, 1, 0, 1, 0) }

InitThr == InitCfg

\* a thread starts a call
Enter(t) ==
    \/ \E data \in ThrLatchWrites : PciConfigIo_write_latch(t, data)
    \/ PciConfigIo_enter(t, "io_read", << >>)
    \/ PciConfigIo_enter(t, "io_write", DWordData)
    \/ \E addr \in ThrEcam : PciConfigMmio_enter(t, "mmio_read", addr, << >>)
    \/ \E addr \in ThrEcam : PciConfigMmio_enter(t, "mmio_write", addr, DWordData)
    \/ PciBus_enter(t, "remove_by_device", 0, "d1")
    \/ PciBus_enter(t, "put_device_id", 2, "none")

\* a thread goes on inside its call
Proceed(t) ==
    \/ lock_pci_bus(t)
    \/ lock_device(t)
    \/ read_register(t)
    \/ write_register(t)
    \/ \E resp \in CfgResponses : write_register_end(t, resp)
    \/ move_bar_call(t)
    \/ unlock_device(t)
    \/ PciBus_call(t)
    \/ unlock_pci_bus(t)

NextThr == \E t \in Threads : Enter(t) \/ Proceed(t)

SpecThr == InitThr /\ [][NextThr]_vars

\* the scheduler lets every thread that can take a step take one
SpecThrFair == SpecThr /\ \A t \in Threads : WF_vars(Proceed(t))

-----------------------------------------------------------------------------
(* Inputs of the device-presence specification: a bus that starts with the  *)
(* host bridge only, slots 1 and 2 reserved and released, a device added   *)
(* and removed                                                             *)

MissSlots == {1, 2}

MissTargets == { <<0, 1, 0, 0>>, <<0, 2, 0, 0>> }

InitMiss ==
    /\ PciBus_new
    /\ PciConfigIo_new
    /\ regs = [h \in Handles |-> << >>]
    /\ panicked = FALSE
    /\ writer = << >>
    /\ reserved = {}
    /\ last = NoCall
    /\ NoThreads

NextMiss ==
    \/ \E id \in MissSlots : get_device_id(id)
    \/ \E id \in MissSlots : put_device_id(id)
    \/ \E k \in MissSlots : add_device(k, "d1")
    \/ remove_by_device("d1")
    \/ \E t \in MissTargets :
          PciConfigIo_write(0, ToBytes(Cam(t[1], t[2], t[3], t[4])), Quiet)
    \/ \E resp \in CfgResponses : PciConfigIo_write(4, DWordData, resp)
    \/ PciConfigIo_read(4, 4)
    \/ \E t \in MissTargets, resp \in CfgResponses :
          PciConfigMmio_write(0, Ecam(t[1], t[2], t[3], t[4], 0), DWordData, resp)
    \/ \E t \in MissTargets : PciConfigMmio_read(0, Ecam(t[1], t[2], t[3], t[4], 0), 4)

SpecMiss == InitMiss /\ [][NextMiss]_vars

-----------------------------------------------------------------------------
(* Inputs of the decoder specification: the two parse functions applied to  *)
(* address words composed from a tuple and from bits they must ignore       *)

DecBus == {0, 1, 170, 255}

DecDevice == {0, 1, 21, 31}

DecFunction == {0, 5, 7}

DecCamRegister == {0, 1, 42, 63}

DecEcamRegister == {0, 1, 682, 1023}

\* values of the low two bits of an address word
DecLow == {0, 3}

\* values of bits 31:24 of a CAM address word
DecCamHigh == {ZERO, 24..31}

CamWord(bus, dev, fn, reg, low, high) ==
    BitOr(BitOr(BitOr(Shl(FromNat(bus), 16), Shl(FromNat(dev), 11)),
                BitOr(Shl(FromNat(fn), 8), Shl(FromNat(reg), 2))),
          BitOr(FromNat(low), high))

\* one call of a parse function: the tuple the word was composed from, the
\* word and the tuple returned
Decode(name, tuple, word, result) ==
    /\ ~panicked
    /\ last' = [NoCall EXCEPT !.op = name, !.data = tuple, !.addr = word,
                              !.out = result]
    /\ UNCHANGED <<device_ids, devices, config_address, regs, panicked, reserved, writer>>
    /\ UNCHANGED thread_vars

InitDec == InitBus

NextDec ==
    \/ \E b \in DecBus, d \in DecDevice, f \in DecFunction, r \in DecCamRegister,
          low \in DecLow, high \in DecCamHigh :
          LET word == CamWord(b, d, f, r, low, high)
          IN Decode("parse_io_config_address", <<b, d, f, r>>, word,
                    parse_io_config_address(word))
    \/ \E b \in DecBus, d \in DecDevice, f \in DecFunction, r \in DecEcamRegister,
          low \in DecLow :
          LET word == Ecam(b, d, f, r, low)
          IN Decode("parse_mmio_config_address", <<b, d, f, r>>, word,
                    parse_mmio_config_address(word))

SpecDec == InitDec /\ [][NextDec]_vars

-----------------------------------------------------------------------------
(* Properties of the address latch *)

\* the u32 whose bytes are those of old, except data at byte positions
\* offset .. offset + Len(data) - 1
Spliced(old, offset, data) ==
    read_u32([k \in 1..4 |->
                IF k - 1 >= offset /\ k - 1 < offset + Len(data)
                THEN data[k - offset]
                ELSE ToBytes(old)[k]])

LatchWrite(c) ==
    /\ c.op = "io_write"
    /\ c.arg \in 0..3
    /\ Len(c.data) \in {1, 2, 4}
    /\ c.arg + Len(c.data) <= 4

\* C1: a write of 1, 2 or 4 bytes to the address latch at offset o, within
\* the DWORD, puts the written bytes at byte positions o.. of the latch and
\* leaves the other bytes; a 2-byte write at offset 0 followed by a 2-byte
\* write at offset 2 leaves the latch that one 4-byte write of both halves
\* leaves.
C1_LatchWritesCompose ==
    [][ /\ LatchWrite(last') =>
             /\ ~panicked'
             /\ config_address' = Spliced(config_address, last'.arg, last'.data)
        /\ (/\ LatchWrite(last) /\ last.arg = 0 /\ Len(last.data) = 2
            /\ LatchWrite(last') /\ last'.arg = 2 /\ Len(last'.data) = 2) =>
             config_address' = read_u32(last.data \o last'.data) ]_vars

-----------------------------------------------------------------------------
(* Properties of configuration accesses *)

\* the fields of a CAM address word, from its bytes
CamEnable(a) == ToBytes(a)[4] >= 128

CamBus(a) == ToBytes(a)[3]

CamDevice(a) == ToBytes(a)[2] \div 8

CamFunction(a) == ToBytes(a)[2] % 8

CamRegister(a) == ToBytes(a)[1] \div 4

\* the fields of an ECAM offset, from its bytes
EcamBus(a) == (ToBytes(a)[3] \div 16) + 16 * (ToBytes(a)[4] % 16)

EcamDevice(a) == (ToBytes(a)[2] \div 128) + 2 * (ToBytes(a)[3] % 16)

EcamFunction(a) == (ToBytes(a)[2] \div 16) % 8

EcamRegister(a) == (ToBytes(a)[1] \div 4) + 64 * (ToBytes(a)[2] % 16)

AllFF(out) == \A k \in 1..Len(out) : out[k] = 255

CamDataRead(c) == c.op = "io_read" /\ c.arg \in 4..7

CamDataWrite(c) == c.op = "io_write" /\ c.arg \in 4..7

EcamRead(c) == c.op = "mmio_read" /\ c.hi = 0

EcamWrite(c) == c.op = "mmio_write" /\ c.hi = 0

\* the step called no write_config_register and no move_bar
NoDeviceEffect ==
    /\ regs' = regs
    /\ last'.wcr = << >>
    /\ last'.moves = << >>

\* C2: an access whose decoded function number is not 0 (bus 0), through the
\* CAM data window or the ECAM window, reads 0xFFFF_FFFF and writes nothing:
\* neither write_config_register nor move_bar is called.
C2_OtherFunctionsIgnored ==
    [][ /\ (/\ CamEnable(config_address)
            /\ CamBus(config_address) = 0
            /\ CamFunction(config_address) # 0) =>
               /\ CamDataRead(last') => AllFF(last'.out)
               /\ CamDataWrite(last') => NoDeviceEffect
        /\ (EcamBus(last'.addr) = 0 /\ EcamFunction(last'.addr) # 0) =>
               /\ EcamRead(last') => AllFF(last'.out)
               /\ EcamWrite(last') => NoDeviceEffect ]_vars

\* C3: an access whose decoded bus number is not 0, through the CAM data
\* window with the enable bit set or through the ECAM window, reads
\* 0xFFFF_FFFF, and a write changes no device register, calls no move_bar
\* and returns no barrier.
C3_OtherBusesIgnored ==
    [][ /\ (CamEnable(config_address) /\ CamBus(config_address) # 0) =>
               /\ CamDataRead(last') => AllFF(last'.out)
               /\ CamDataWrite(last') => (NoDeviceEffect /\ last'.res = "None")
        /\ EcamBus(last'.addr) # 0 =>
               /\ EcamRead(last') => AllFF(last'.out)
               /\ EcamWrite(last') => (NoDeviceEffect /\ last'.res = "None") ]_vars

\* C3 witness: a CAM data write addressed bus 1, device 1, where bus 0 has a
\* device in slot 1
C3_Witness ==
    /\ CamDataWrite(last)
    /\ last.arg = 4
    /\ Len(last.data) = 4
    /\ CamEnable(config_address)
    /\ CamBus(config_address) = 1
    /\ CamDevice(config_address) \in DOMAIN devices

\* C4: while bit 31 of the latch is clear, a read of the data window within
\* the DWORD returns 0xFF bytes and a write to the data window changes no
\* device register, calls no move_bar and returns no barrier.
C4_EnableBitGates ==
    [][ ~CamEnable(config_address) =>
          /\ (CamDataRead(last') /\ (last'.arg % 4) + Len(last'.out) <= 4) =>
                AllFF(last'.out)
          /\ CamDataWrite(last') => (NoDeviceEffect /\ last'.res = "None") ]_vars

\* C4 witness: a 4-byte data write while the disabled latch addresses the
\* device present in slot 1
C4_Witness ==
    /\ CamDataWrite(last)
    /\ last.arg = 4
    /\ Len(last.data) = 4
    /\ ~CamEnable(config_address)
    /\ CamBus(config_address) = 0
    /\ CamFunction(config_address) = 0
    /\ CamDevice(config_address) = 1
    /\ 1 \in DOMAIN devices

\* the latch is exactly enable | N<<11 | R<<2 and the ECAM offset is
\* N<<15 | R<<2 for the same present slot N and register R < 64
SameRegister(latch, addr) ==
    /\ ToBytes(latch)[4] = 128
    /\ CamBus(latch) = 0
    /\ CamFunction(latch) = 0
    /\ ToBytes(latch)[1] % 4 = 0
    /\ ToBytes(addr)[4] = 0
    /\ EcamBus(addr) = 0
    /\ EcamFunction(addr) = 0
    /\ ToBytes(addr)[1] % 4 = 0
    /\ EcamDevice(addr) = CamDevice(latch)
    /\ EcamRegister(addr) = CamRegister(latch)
    /\ CamDevice(latch) \in DOMAIN devices

\* C9: a 4-byte write of V through the CAM data window with the latch at
\* enable | N<<11 | R<<2, slot N present, followed by a 4-byte ECAM read of
\* offset N<<15 | R<<2 returns V; an ECAM write of V followed by the CAM
\* read returns V as well.
C9_CamEcamRoundTrip ==
    [][ /\ (/\ CamDataWrite(last) /\ last.arg = 4 /\ Len(last.data) = 4
            /\ EcamRead(last') /\ Len(last'.out) = 4
            /\ SameRegister(config_address, last'.addr)) =>
               last'.out = last.data
        /\ (/\ EcamWrite(last) /\ Len(last.data) = 4
            /\ CamDataRead(last') /\ last'.arg = 4 /\ Len(last'.out) = 4
            /\ SameRegister(config_address, last.addr)) =>
               last'.out = last.data ]_vars

\* C9 witness: a 4-byte ECAM read of register 2 of the device in slot 1
\* returns the value that register last received through the CAM window
C9_Witness ==
    /\ EcamRead(last)
    /\ last.addr = Ecam(0, 1, 0, 2, 0)
    /\ last.out = DWordData
    /\ <<devices[1], 2>> \in DOMAIN writer
    /\ writer[<<devices[1], 2>>] = "io_write"

\* the write is one the facade passes on to a present device
Accepted(c) ==
    \/ /\ CamDataWrite(c)
       /\ (c.arg - 4) + Len(c.data) <= 4
       /\ CamEnable(config_address)
       /\ CamBus(config_address) = 0
       /\ CamDevice(config_address) \in DOMAIN devices
    \/ /\ EcamWrite(c)
       /\ (ToBytes(c.addr)[1] % 4) + Len(c.data) <= 4
       /\ EcamBus(c.addr) = 0
       /\ EcamDevice(c.addr) \in DOMAIN devices

TargetDevice(c) ==
    IF c.op = "io_write" THEN devices[CamDevice(config_address)]
    ELSE devices[EcamDevice(c.addr)]

\* C10: an accepted configuration write reaches the addressed device, and
\* when its write_config_register returns k requests move_bar is called k
\* times, once per request in order with that request's parameters and the
\* written device, also after a failed call; the register keeps the written
\* bytes; the CAM write returns the device's barrier, the ECAM write none.
C10_MoveBarPerRequest ==
    [][ Accepted(last') =>
          /\ Len(last'.wcr) = 1
          /\ LET w == last'.wcr[1]
                 m == last'.moves
             IN /\ w.dev = TargetDevice(last')
                /\ Len(m) = Len(w.bars)
                /\ \A i \in 1..Len(m) :
                      /\ m[i].params = w.bars[i]
                      /\ m[i].dev = w.dev
                /\ w.reg \in DOMAIN regs'[w.dev]
                /\ ReadBytes(regs'[w.dev][w.reg], w.offset, Len(w.data)) = w.data
                /\ last'.op = "io_write" => last'.res = w.barrier
                /\ last'.op = "mmio_write" => last'.res = "None" ]_vars

\* C10 witness: a CAM write whose device returned two requests and a barrier;
\* the first move_bar failed, the second was still made
C10_Witness ==
    /\ CamDataWrite(last)
    /\ Len(last.wcr) = 1
    /\ Len(last.moves) = 2
    /\ last.moves[1].res = "Err"
    /\ last.moves[2].res = "Ok"
    /\ last.res = "Some"

CamLatchWrite(c) == c.op = "io_write" /\ c.arg \in 0..3

CrossesDWord(offset, len) == (offset % 4) + len > 4

\* C12: an access with (offset mod 4) + len > 4, on the address latch, the
\* CAM data window or the ECAM window, reads 0xFF in every byte and writes
\* nothing: the latch and every device register keep their values, neither
\* write_config_register nor move_bar is called; an ECAM access at an offset
\* above 0xFFFF_FFFF has the same outcome.
C12_DWordBoundary ==
    [][ /\ (last'.op = "io_read" /\ last'.arg \in 0..7
                /\ CrossesDWord(last'.arg, Len(last'.out))) => AllFF(last'.out)
        /\ (last'.op = "io_write" /\ last'.arg \in 0..7
                /\ CrossesDWord(last'.arg, Len(last'.data))) =>
              (config_address' = config_address /\ NoDeviceEffect)
        /\ (last'.op = "mmio_read"
                /\ (\/ CrossesDWord(ToBytes(last'.addr)[1], Len(last'.out))
                    \/ last'.hi > 0)) => AllFF(last'.out)
        /\ (last'.op = "mmio_write"
                /\ (\/ CrossesDWord(ToBytes(last'.addr)[1], Len(last'.data))
                    \/ last'.hi > 0)) =>
              (config_address' = config_address /\ NoDeviceEffect) ]_vars

\* C12 witness: a 2-byte write at byte 3 of the data window while the latch
\* addresses a register of the device present in slot 1
C12_Witness ==
    /\ CamDataWrite(last)
    /\ last.arg = 7
    /\ Len(last.data) = 2
    /\ CamEnable(config_address)
    /\ CamBus(config_address) = 0
    /\ CamFunction(config_address) = 0
    /\ CamDevice(config_address) = 1
    /\ 1 \in DOMAIN devices

\* the u32 0x8000_0800
CAM_DEVICE_1 == {31, 11}

\* C13: a CAM access with the enable bit set, or an ECAM access, on bus 0
\* whose device number has no entry in the device map reads 0xFFFF_FFFF and
\* writes nothing (no register change, no move_bar, no barrier, no panic),
\* whatever the slot table says; with only the host bridge in the map the
\* CAM address 0x8000_0800 reads 0xFFFF_FFFF.
C13_MissingDevice ==
    [][ /\ (/\ CamEnable(config_address)
            /\ CamBus(config_address) = 0
            /\ CamDevice(config_address) \notin DOMAIN devices) =>
               /\ CamDataRead(last') => AllFF(last'.out)
               /\ CamDataWrite(last') =>
                     (NoDeviceEffect /\ last'.res = "None" /\ ~panicked')
        /\ (EcamBus(last'.addr) = 0 /\ EcamDevice(last'.addr) \notin DOMAIN devices) =>
               /\ EcamRead(last') => AllFF(last'.out)
               /\ EcamWrite(last') =>
                     (NoDeviceEffect /\ last'.res = "None" /\ ~panicked')
        /\ (/\ DOMAIN devices = {0}
            /\ config_address = CAM_DEVICE_1
            /\ CamDataRead(last') /\ last'.arg = 4 /\ Len(last'.out) = 4) =>
               last'.out = <<255, 255, 255, 255>> ]_vars

\* C13 witness: the data window reads 0xFFFF_FFFF for slot 1, whose flag is
\* set and whose device, written earlier, was removed from the map
C13_Witness ==
    /\ CamDataRead(last)
    /\ Len(last.out) = 4
    /\ AllFF(last.out)
    /\ config_address = CAM_DEVICE_1
    /\ device_ids[1]
    /\ DOMAIN devices = {0}
    /\ <<"d1", 0>> \in DOMAIN writer

\* C14: decoding the CAM word bus<<16 | device<<11 | function<<8 | r<<2,
\* r in 0..63, returns (bus, device, function, r), and decoding the ECAM
\* offset bus<<20 | device<<15 | function<<12 | r<<2, r in 0..1023, returns
\* (bus, device, function, r); the low two bits of the word and, for CAM,
\* bits 31:24 do not affect the result.
C14_DecoderRoundTrip ==
    /\ last.op = "parse_io_config_address" =>
          /\ last.data = << CamBus(last.addr), CamDevice(last.addr),
                            CamFunction(last.addr), CamRegister(last.addr) >>
          /\ last.out = last.data
    /\ last.op = "parse_mmio_config_address" =>
          /\ last.data = << EcamBus(last.addr), EcamDevice(last.addr),
                            EcamFunction(last.addr), EcamRegister(last.addr) >>
          /\ last.out = last.data

\* C14 witness: the CAM word of the largest tuple, with bits 31:24 and the
\* low two bits set, was decoded
C14_Witness ==
    /\ last.op = "parse_io_config_address"
    /\ last.out = <<255, 31, 7, 63>>
    /\ (24..31) \subseteq last.addr
    /\ {0, 1} \subseteq last.addr

CamLatchRead(c) == c.op = "io_read" /\ c.arg \in 0..3

Reads == {"io_read", "mmio_read"}

\* C19: a write to the address latch changes no device register, nor the
\* slot table, nor the device map; an access to the data window and an ECAM
\* access never change the latch; a read of the latch, the data window or
\* the ECAM window leaves the latch, the slot table and the device map as
\* they were; the latch of a new PciConfigIo is 0 and reads back as 0 at
\* offsets 0..3.
C19_CamFacadeFrame ==
    /\ config_address = ZERO
    /\ [][ /\ CamLatchWrite(last') =>
                 /\ NoDeviceEffect
                 /\ device_ids' = device_ids
                 /\ devices' = devices
           /\ (\/ CamDataRead(last') \/ CamDataWrite(last')
               \/ last'.op \in {"mmio_read", "mmio_write"}) =>
                 config_address' = config_address
           /\ last'.op \in Reads =>
                 /\ config_address' = config_address
                 /\ device_ids' = device_ids
                 /\ devices' = devices
           /\ (/\ last.op = "new"
               /\ CamLatchRead(last')
               /\ ~CrossesDWord(last'.arg, Len(last'.out))) =>
                 \A k \in 1..Len(last'.out) : last'.out[k] = 0 ]_vars

\* C19 witness: a write through the data window reached a device register
\* and the latch still holds the address written before
C19_Witness ==
    /\ CamDataWrite(last)
    /\ Len(last.wcr) = 1
    /\ last.wcr[1].dev = "d1"
    /\ last.wcr[1].reg = 2
    /\ config_address = Cam(0, 1, 0, 2)

-----------------------------------------------------------------------------
(* Properties of slot allocation *)

TrueFlags == Cardinality({s \in Slots : device_ids[s]})

MapSize == Cardinality(DOMAIN devices)

FreeSlots(ids) == {s \in Slots : ~ids[s]}

SlotOps == {"next_device_id", "get_device_id", "put_device_id"}

MapOps == {"add_device", "remove_by_device"}

\* C5 as stated: in every reachable state the number of true flags of the
\* slot table equals the number of entries of the device map.
C5_FlagsEqualMapSize == TrueFlags = MapSize

\* C5 amended: the two counts are equal in the state PciBus::new builds;
\* afterwards next_device_id, get_device_id and put_device_id change the
\* number of true flags by at most one and never the device map, while
\* add_device and remove_by_device change the device map and never the slot
\* table, so the counts agree only while the caller has paired them.
C5_CountsMoveSeparately ==
    /\ TrueFlags = MapSize
    /\ [][ /\ last'.op \in SlotOps =>
                /\ devices' = devices
                /\ TrueFlags' - TrueFlags \in {-1, 0, 1}
           /\ last'.op \in MapOps => device_ids' = device_ids ]_vars

\* C5 witness: a slot was reserved and no device added yet, the counts differ
C5_Witness ==
    /\ last.op = "next_device_id"
    /\ last.res = "Ok"
    /\ TrueFlags = MapSize + 1

Slot0HostBridge ==
    /\ device_ids[0]
    /\ 0 \in DOMAIN devices
    /\ devices[0] = "root"

\* C6 as stated: in every reachable state slot 0 is flagged occupied and the
\* device map maps key 0 to the host bridge, and next_device_id never
\* returns 0.
C6_Slot0AlwaysHostBridge ==
    /\ Slot0HostBridge
    /\ ~(last.op = "next_device_id" /\ last.res = "Ok" /\ last.val = 0)

\* the calls that the code lets vacate slot 0
VacatesSlot0(c) ==
    \/ c.op = "put_device_id" /\ c.arg = 0
    \/ c.op = "add_device" /\ c.arg = 0 /\ c.handle # "root"
    \/ c.op = "remove_by_device" /\ c.handle = "root"

\* C6 amended: slot 0 is occupied by the host bridge after PciBus::new and
\* stays so across every call other than put_device_id(0), add_device(0, d)
\* with d another device, and remove_by_device(host bridge); while it is
\* occupied next_device_id does not return 0.
C6_Slot0KeptByOtherCalls ==
    /\ Slot0HostBridge
    /\ [][ (Slot0HostBridge /\ ~VacatesSlot0(last')) =>
              /\ Slot0HostBridge'
              /\ ~(last'.op = "next_device_id" /\ last'.res = "Ok"
                   /\ last'.val = 0) ]_vars

\* C6 witness: another slot was released and slot 0 still holds the bridge
C6_Witness ==
    /\ last.op = "put_device_id"
    /\ last.arg = 2
    /\ last.res = "Ok"
    /\ Slot0HostBridge
    /\ Cardinality(DOMAIN devices) > 1

PrefixFlags(k) == [i \in Slots |-> i < k]

\* C7: next_device_id returns the lowest slot whose flag is false and sets
\* exactly that flag, the device map unchanged; with all 32 flags true it
\* fails with NoPciDeviceSlotAvailable and changes nothing; on a fresh bus
\* the first three calls return 1, 2, 3; after put_device_id(s) the next
\* call returns s when s is the lowest free slot.
C7_NextDeviceIdLowestFree ==
    [][ last'.op = "next_device_id" =>
          LET free == FreeSlots(device_ids) IN
          /\ devices' = devices
          /\ IF free = {}
             THEN /\ last'.res = "NoPciDeviceSlotAvailable"
                  /\ device_ids' = device_ids
             ELSE /\ last'.res = "Ok"
                  /\ last'.val = Lowest(free)
                  /\ device_ids' = [device_ids EXCEPT ![Lowest(free)] = TRUE]
          /\ \A k \in 1..3 : device_ids = PrefixFlags(k) => last'.val = k
          /\ (/\ last.op = "put_device_id"
              /\ last.res = "Ok"
              /\ free # {}
              /\ last.arg = Lowest(free)) => last'.val = last.arg ]_vars

\* C7 witness: all 32 slots are taken and next_device_id has failed
C7_Witness ==
    /\ last.op = "next_device_id"
    /\ last.res = "NoPciDeviceSlotAvailable"
    /\ FreeSlots(device_ids) = {}

HandedOut(c) == IF c.op = "next_device_id" THEN c.val ELSE c.arg

\* C8: get_device_id(s) succeeds exactly when s < 32 and slot s is free and
\* then sets only flag s; it fails with InvalidPciDeviceSlot(s) for s >= 32
\* and AlreadyInUsePciDeviceSlot(s) for an occupied slot, changing nothing;
\* neither next_device_id nor get_device_id hands out a slot that was handed
\* out before and not released since.
C8_GetDeviceIdExclusive ==
    [][ /\ last'.op = "get_device_id" =>
             LET s == last'.arg IN
             /\ devices' = devices
             /\ (s < 32 /\ ~device_ids[s]) =>
                   /\ last'.res = "Ok"
                   /\ device_ids' = [device_ids EXCEPT ![s] = TRUE]
             /\ s >= 32 =>
                   /\ last'.res = "InvalidPciDeviceSlot"
                   /\ last'.val = s
                   /\ device_ids' = device_ids
             /\ (s < 32 /\ device_ids[s]) =>
                   /\ last'.res = "AlreadyInUsePciDeviceSlot"
                   /\ last'.val = s
                   /\ device_ids' = device_ids
        /\ (last'.op \in {"next_device_id", "get_device_id"} /\ last'.res = "Ok")
             => HandedOut(last') \notin reserved ]_vars

\* C8 witness: a slot handed out earlier is asked for again and refused
C8_Witness ==
    /\ last.op = "get_device_id"
    /\ last.res = "AlreadyInUsePciDeviceSlot"
    /\ last.arg \in reserved
    /\ last.arg # 0

\* C17: remove_by_device(h) removes every entry of the device map whose
\* handle is h, also when h was added under several slots, keeps every other
\* entry, succeeds, and leaves the slot table as it was; next_device_id
\* never returns a slot whose flag is set, so the slot of a removed device is
\* not handed out before put_device_id has released it.
C17_RemoveByDeviceFrame ==
    [][ /\ last'.op = "remove_by_device" =>
              /\ DOMAIN devices' = {k \in DOMAIN devices : devices[k] # last'.handle}
              /\ \A k \in DOMAIN devices' : devices'[k] = devices[k]
              /\ last'.res = "Ok"
              /\ device_ids' = device_ids
        /\ (last'.op = "next_device_id" /\ last'.res = "Ok") =>
              /\ ~device_ids[last'.val]
              /\ (last.op = "remove_by_device" /\ device_ids[1] /\ device_ids[2])
                    => last'.val \notin {1, 2} ]_vars

\* C17 witness: one call removed the two entries of a device added under
\* slots 1 and 2; the host bridge entry is kept and both flags are still set
C17_Witness ==
    /\ last.op = "remove_by_device"
    /\ last.handle = "d1"
    /\ last.val = 2
    /\ DOMAIN devices = {0}
    /\ devices[0] = "root"
    /\ device_ids[1]
    /\ device_ids[2]

-----------------------------------------------------------------------------
(* Properties of the threads *)

\* the positions at which a thread is inside read_config_register,
\* write_config_register or the move_bar loop
DeviceWork == {"read_register", "write_register", "write_register_end", "move_bar"}

HoldsDevice(t) == {h \in Handles : t \in device_mutex[h]}

\* C15: in a CAM or ECAM data access the thread takes the bus mutex first
\* and the mutex of the target device second, holds both during
\* read_config_register, write_config_register and every move_bar call, and
\* never waits for the bus mutex while it holds a device mutex.
C15_LockOrder ==
    /\ [](\A t \in Threads :
            /\ thread[t].pc \in DeviceWork =>
                  /\ t \in bus_mutex
                  /\ HoldsDevice(t) = {thread[t].handle}
                  /\ thread[t].slot \in DOMAIN devices
                  /\ devices[thread[t].slot] = thread[t].handle
            /\ thread[t].pc = "lock_bus" => HoldsDevice(t) = {})
    /\ [][\A t \in Threads :
            /\ (t \notin bus_mutex /\ t \in bus_mutex') => HoldsDevice(t) = {}
            /\ HoldsDevice(t)' # HoldsDevice(t) =>
                  (t \in bus_mutex /\ t \in bus_mutex')]_vars

\* C15 witness: a thread is in the move_bar loop of a CAM write with both
\* mutexes, and the other thread waits for the bus mutex
C15_Witness ==
    /\ thread["A"].pc = "move_bar"
    /\ thread["A"].op = "io_write"
    /\ "A" \in bus_mutex
    /\ "A" \in device_mutex["d1"]
    /\ thread["B"].pc = "lock_bus"
    /\ thread["B"].op = "mmio_read"

\* the positions at which a thread is between the first store of a
\* register write and the end of its move_bar loop
InWrite == {"write_register_end", "move_bar"}

\* the values a register of the threaded specification holds between
\* writes: its reset value and the value every write stores
RestValues == { <<0, 0, 0, 0>>, DWordData }

ReadsRegister(t) ==
    thread[t].pc = "read_register" /\ thread'[t].pc = "unlock_device"

\* C16: a configuration read that runs concurrently with a write of the same
\* register returns the value the register had before the write or the
\* value it has after it, never a mixture; from its first store to the end
\* of its move_bar calls a write is one step for every other CAM or ECAM
\* operation: no other thread is past the bus mutex.
C16_RegisterAccessAtomic ==
    /\ [](\A t \in Threads : \A u \in Threads \ {t} :
            thread[t].pc \in InWrite => thread[u].pc \in {"idle", "lock_bus"})
    /\ [][\A t \in Threads : ReadsRegister(t) =>
            /\ thread'[t].out \in RestValues
            /\ thread'[t].out =
                  ToBytes(read_config_register(thread[t].handle, thread[t].reg))
            /\ \A u \in Threads \ {t} : thread[u].pc \notin InWrite]_vars

\* C16 witness: thread B has read register 1 of the device while thread A
\* is inside a write of that register; B got the value from before the write
C16_Witness ==
    /\ thread["B"].pc = "unlock_device"
    /\ thread["B"].op = "mmio_read"
    /\ thread["B"].reg = 1
    /\ thread["B"].out = <<0, 0, 0, 0>>
    /\ thread["A"].pc = "lock_bus"
    /\ thread["A"].op = "io_write"
    /\ thread["A"].slot = 1
    /\ thread["A"].reg = 1

AllIdle == \A t \in Threads : thread[t].pc = "idle"

AllFree == bus_mutex = {} /\ \A h \in Handles : device_mutex[h] = {}

\* C18: with threads that issue CAM and ECAM reads and writes and device-map
\* operations, under a fair scheduler and with device operations and
\* move_bar that return and do not lock the bus, every call that was started
\* returns, and once no call is in progress the bus mutex and every device
\* mutex are free.
C18_DeadlockFree ==
    /\ \A t \in Threads : (thread[t].pc # "idle") ~> (thread[t].pc = "idle")
    /\ [](AllIdle => AllFree)

\* C18 witness: both threads have returned from all their calls, among them
\* a register write and a change of the device map, and every mutex is free
C18_Witness ==
    /\ AllIdle
    /\ \A t \in Threads : thread[t].calls = MaxCalls
    /\ AllFree
    /\ regs["d1"] # << >>
    /\ 1 \notin DOMAIN devices

\* C20: a data-window access targets the device and the register that the
\* shared latch selects when the access is made, whichever thread wrote the
\* latch last: a thread inside a data-window access works on the slot and
\* register of config_address, not on those of the word it wrote itself, so
\* after A wrote the latch for register X and B for register Y, A's access
\* goes to Y.
C20_LatchSharedByThreads ==
    /\ [](\A t \in Threads : InCall(t, CamOps) =>
            /\ thread[t].slot = CamDevice(config_address)
            /\ thread[t].reg = CamRegister(config_address))
    /\ [][\A t \in Threads : ReadsRegister(t) =>
            thread'[t].out =
                ToBytes(read_config_register(thread[t].handle, thread[t].reg))]_vars

\* C20 witness: A wrote the latch for register 1, B wrote it for register 2
\* and stored a value there; A's data-window read returned register 2
C20_Witness ==
    /\ thread["A"].pc = "unlock_device"
    /\ thread["A"].op = "io_read"
    /\ thread["A"].latch = Cam(0, 1, 0, 1)
    /\ thread["B"].latch = Cam(0, 1, 0, 2)
    /\ thread["A"].reg = 2
    /\ thread["A"].out = DWordData
    /\ read_config_register("d1", 1) = ZERO
    /\ ToBytes(read_config_register("d1", 2)) = DWordData

====
